---- MODULE Spec2Model ----
(***************************************************************************)
(* Verification model of the 2-D D2D-NDT registration core                 *)
(*   graph_slam_uk/registration/d2d_ndt2d.h        (the D2D object)        *)
(*   graph_slam_uk/registration/d2d_ndt2d_robust.h (the robust wrapper)    *)
(*                                                                         *)
(* Numbers are integers in fixed units:                                    *)
(*   pose coordinates, step lengths, epsilon : 0.05   (0.1 is 2)           *)
(*   cell sizes                              : 0.25   (2.0 is 8)           *)
(*   validator scores                        : 0.1    (0.7 is 7)           *)
(*   outlier ratio                           : 0.01   (0.55 is 55)         *)
(* A 4x4 homogeneous matrix is the record [x, y, th, z]: its translation   *)
(* and its rotation angle about Z.  A pose vector is <<x, y, theta>>.      *)
(* A 3x3 Hessian is modelled by its diagonal <<hxx, hyy, htt>>; the grids  *)
(* of GridSet only produce diagonal Hessians and axis-aligned gradients,   *)
(* so norms and normalisations are exact in integers.                      *)
(***************************************************************************)
EXTENDS Integers, Sequences, FiniteSets, TLC

VARIABLES
  d2d,   \* fields of the D2DNormalDistributionsTransform2D object
  fr,    \* frame of D2D computeTransformation / computeSingleGrid
  rob,   \* fields and frame of the D2DNormalDistributionsTransform2DRobust object
  omp,   \* frame of calcScore's parallel region
  hist   \* history of the current call (what ran, in which order)

vars == <<d2d, fr, rob, omp, hist>>

----------------------------------------------------------------------------
(* Bounds of the model *)

\* largest max_iterations_ configured on a stand-alone D2D object
MaxIterations == 3
\* largest number of resolutions configured on a stand-alone D2D object
MaxLayers == 3
\* half a turn in pose units (pi / 0.05, rounded up): atan2 wraps beyond it
HalfTurn == 63
\* number of points of the input cloud
NumPoints == 4

----------------------------------------------------------------------------
(* Small helpers *)

Abs(a) == IF a < 0 THEN -a ELSE a
Min(a, b) == IF b < a THEN b ELSE a
Max(a, b) == IF a < b THEN b ELSE a
Zero3 == <<0, 0, 0>>
Unit(axis) == [k \in 1..3 |-> IF k = axis THEN 1 ELSE 0]
Dot(u, v) == u[1] * v[1] + u[2] * v[2] + u[3] * v[3]
Scale(u, a) == [k \in 1..3 |-> u[k] * a]
Plus(u, v) == [k \in 1..3 |-> u[k] + v[k]]
Last(q) == q[Len(q)]

\* Eigen norm(): exact on the vectors the model produces (perfect squares)
Norm(u) ==
  LET squared == Dot(u, u)
      bound == Abs(u[1]) + Abs(u[2]) + Abs(u[3])
  IN CHOOSE n \in 0..bound : n * n = squared
\* Eigen normalize(): u / |u|
Normalized(u) ==
  LET norm == Norm(u)
  IN [k \in 1..3 |-> u[k] \div norm]

----------------------------------------------------------------------------
(* SE(2) pose codec *)

Mat(x, y, th, z) == [x |-> x, y |-> y, th |-> th, z |-> z]
Identity == Mat(0, 0, 0, 0)

\* an angle brought into (-HalfTurn, HalfTurn], as atan2 returns it
Wrap(t) == ((t + HalfTurn - 1) % (2 * HalfTurn)) - (HalfTurn - 1)

\* rotation about Z by theta, translation (x, y, 0)
vecToMat(v) == Mat(v[1], v[2], Wrap(v[3]), 0)

\* (T[0,3], T[1,3], atan2(R[1,0], R[0,0])): the z translation is dropped
matToVec(T) == <<T.x, T.y, T.th>>

\* the initial guesses tried
GuessSet == {Identity, Mat(1, 0, 0, 1), Mat(0, 0, HalfTurn, 0)}

----------------------------------------------------------------------------
(* Score triples *)

\* value_, gradient_ and hessian_: the Hessian is kept as its diagonal and
\* its (x, y) entry, the only entries a pair of the model gives
ScoreZero ==
  [value |-> 0, gradient |-> Zero3, hessian |-> Zero3, hessian_xy |-> 0, nan |-> FALSE]
\* a triple holding NaN (NaN absorbs every sum)
ScoreNaN ==
  [value |-> 0, gradient |-> Zero3, hessian |-> Zero3, hessian_xy |-> 0, nan |-> TRUE]

\* ScoreAndDerivatives::operator+=
ScoreAdd(a, b) ==
  IF a.nan \/ b.nan THEN ScoreNaN
  ELSE [value |-> a.value + b.value,
        gradient |-> Plus(a.gradient, b.gradient),
        hessian |-> Plus(a.hessian, b.hessian),
        hessian_xy |-> a.hessian_xy + b.hessian_xy,
        nan |-> FALSE]

----------------------------------------------------------------------------
(* Grids: a grid is the sequence of its source cells; a source cell is the *)
(* sequence of the (at most 2) target cells nearestKSearch returns for it. *)
(* A pair is described by what its covariance sum and distance are:        *)
(*   singular : cov_sum has no inverse (exists == false)                   *)
(*   nandist  : the distance is NaN or infinite (dist * 0 != 0)            *)
(*   nonfinite: the contribution overflows / the fitting constants are NaN *)
(*   quad     : a regular pair whose score is h * (p[axis] - c)^2          *)
(*   cross    : a regular pair whose score is h * (p[1] - c) * p[2]        *)

Singular == [kind |-> "singular", axis |-> 1, c |-> 0, h |-> 0]
NanDist == [kind |-> "nandist", axis |-> 1, c |-> 0, h |-> 0]
NonFinite == [kind |-> "nonfinite", axis |-> 1, c |-> 0, h |-> 0]
Quad(axis, c, h) == [kind |-> "quad", axis |-> axis, c |-> c, h |-> h]
Cross(c, h) == [kind |-> "cross", axis |-> 1, c |-> c, h |-> h]

GridSet ==
  { << >>,                                              \* no source cells
    << <<Singular, Singular>>, <<Singular>> >>,          \* singular everywhere
    << <<NonFinite>> >>,
    << <<Quad(1, 1, -1), Singular>> >>,
    << <<Quad(1, 3, -1)>>, <<Quad(1, 3, -1), NanDist>> >>,
    << <<Quad(2, 2, -1), Quad(2, 2, -1)>> >>,
    << <<Quad(3, HalfTurn + 1, -1)>> >>,
    << <<Quad(1, -2, 1)>>, <<Singular>> >> }

\* the grids met by the robust wrapper's inner D2D
RobustGridSet ==
  { << >>,
    << <<NonFinite, Singular>> >>,
    << <<Quad(1, 1, -1), Singular>> >>,
    << <<Quad(1, 2, -1)>>, <<NanDist>> >>,
    << <<Quad(2, 1, -1)>> >>,
    << <<Quad(2, 2, -1), Quad(2, 2, -1)>> >> }

\* calcSourceCellScore without the exists check: a singular pair is scored
\* from whatever the failed inversion left in icov
calcSourceCellScore_NoExistsCheck(pair, p) ==
  IF pair.kind = "nandist" THEN ScoreZero
  ELSE IF pair.kind \in {"nonfinite", "singular"} THEN ScoreNaN
  ELSE IF pair.kind = "cross"
  THEN [value |-> pair.h * (p[1] - pair.c) * p[2],
        gradient |-> <<pair.h * p[2], pair.h * (p[1] - pair.c), 0>>,
        hessian |-> Zero3, hessian_xy |-> pair.h, nan |-> FALSE]
  ELSE LET d == p[pair.axis] - pair.c
       IN [value |-> pair.h * d * d,
           gradient |-> Scale(Unit(pair.axis), 2 * pair.h * d),
           hessian |-> Scale(Unit(pair.axis), 2 * pair.h),
           hessian_xy |-> 0,
           nan |-> FALSE]

\* calcSourceCellScore without the dist * 0 != 0 check: exp() of a NaN
\* distance is NaN, and so are the value, the gradient and the Hessian
calcSourceCellScore_NoDistCheck(pair, p) ==
  IF pair.kind = "singular" THEN ScoreZero
  ELSE IF pair.kind \in {"nandist", "nonfinite"} THEN ScoreNaN
  ELSE IF pair.kind = "cross"
  THEN [value |-> pair.h * (p[1] - pair.c) * p[2],
        gradient |-> <<pair.h * p[2], pair.h * (p[1] - pair.c), 0>>,
        hessian |-> Zero3, hessian_xy |-> pair.h, nan |-> FALSE]
  ELSE LET d == p[pair.axis] - pair.c
       IN [value |-> pair.h * d * d,
           gradient |-> Scale(Unit(pair.axis), 2 * pair.h * d),
           hessian |-> Scale(Unit(pair.axis), 2 * pair.h),
           hessian_xy |-> 0,
           nan |-> FALSE]

\* calcSourceCellScore, value + gradient + Hessian of one pair at pose p
calcSourceCellScore(pair, p) ==
  IF pair.kind = "singular" THEN ScoreZero
  ELSE IF pair.kind = "nandist" THEN ScoreZero
  ELSE IF pair.kind = "nonfinite" THEN ScoreNaN
  ELSE IF pair.kind = "cross"
  THEN [value |-> pair.h * (p[1] - pair.c) * p[2],
        gradient |-> <<pair.h * p[2], pair.h * (p[1] - pair.c), 0>>,
        hessian |-> Zero3, hessian_xy |-> pair.h, nan |-> FALSE]
  ELSE LET d == p[pair.axis] - pair.c
       IN [value |-> pair.h * d * d,
           gradient |-> Scale(Unit(pair.axis), 2 * pair.h * d),
           hessian |-> Scale(Unit(pair.axis), 2 * pair.h),
           hessian_xy |-> 0,
           nan |-> FALSE]

RECURSIVE SumPairs(_, _)
SumPairs(cell, p) ==
  IF cell = << >> THEN ScoreZero
  ELSE ScoreAdd(calcSourceCellScore(Head(cell), p), SumPairs(Tail(cell), p))

RECURSIVE SumCells(_, _)
SumCells(grid, p) ==
  IF grid = << >> THEN ScoreZero
  ELSE ScoreAdd(SumPairs(Head(grid), p), SumCells(Tail(grid), p))

\* calcScore: the total over every source cell and its neighbours
calcScore(grid, p) == SumCells(grid, p)

----------------------------------------------------------------------------
(* Newton direction and step length *)

\* JacobiSVD(hessian).solve(-gradient): the minimum-norm least-squares
\* solution; a zero singular value contributes nothing.  With a non-zero
\* (x, y) entry the (x, y) block is inverted when its determinant is not 0,
\* and is H / trace(H)^2 pseudo-inverted when it has rank 1.
Solve(score) ==
  LET g == score.gradient
      H == score.hessian
      h_xy == score.hessian_xy
      det == H[1] * H[2] - h_xy * h_xy
      trace == H[1] + H[2]
      diagonal == [k \in 1..3 |-> IF H[k] = 0 THEN 0 ELSE (0 - g[k]) \div H[k]]
  IN IF h_xy = 0 THEN diagonal
     ELSE IF det # 0
     THEN <<(0 - (H[2] * g[1] - h_xy * g[2])) \div det,
            (0 - (H[1] * g[2] - h_xy * g[1])) \div det,
            diagonal[3]>>
     ELSE <<(0 - (H[1] * g[1] + h_xy * g[2])) \div (trace * trace),
            (0 - (h_xy * g[1] + H[2] * g[2])) \div (trace * trace),
            diagonal[3]>>

----------------------------------------------------------------------------
(* The More-Thuente line search.  A double that may be NaN is the record   *)
(* [nan, v]; a comparison with a NaN operand is false.  The values of phi  *)
(* are integers; psi and the slopes kept in the interval are held times    *)
(* MuDen, so that mu * phi'(0) * a is exact.                               *)

\* mu = 1.e-4 is 1 / MuDen
MuDen == 10000
\* nu = 0.9 is NuNum / NuDen
NuNum == 9
NuDen == 10
\* int max_step_iterations = 10
max_step_iterations == 10

Num(v) == [nan |-> FALSE, v |-> v]
NaN == [nan |-> TRUE, v |-> 0]
Sign(v) == IF v < 0 THEN -1 ELSE IF v > 0 THEN 1 ELSE 0
Gt(a, b) == ~a.nan /\ ~b.nan /\ a.v > b.v
Le(a, b) == ~a.nan /\ ~b.nan /\ a.v <= b.v
\* the sign of a product of doubles, 0 when it is NaN (no comparison holds)
ProductSign(a, b) == IF a.nan \/ b.nan THEN 0 ELSE Sign(a.v) * Sign(b.v)
Minus(a, b) == IF a.nan \/ b.nan THEN NaN ELSE Num(a.v - b.v)
Scaled(a) == IF a.nan THEN NaN ELSE Num(MuDen * a.v)

\* auxilaryFunction_PsiMT: f_a - f_0 - mu * g_0 * a, times MuDen
auxilaryFunction_PsiMT(a, f_a, f_0, g_0) ==
  IF a.nan \/ f_a.nan THEN NaN ELSE Num(MuDen * (f_a.v - f_0) - g_0 * a.v)

\* auxilaryFunction_dPsiMT: g_a - mu * g_0, times MuDen
auxilaryFunction_dPsiMT(g_a, g_0) ==
  IF g_a.nan THEN NaN ELSE Num(MuDen * g_a.v - g_0)

\* the interval I = (a_l, f_l, g_l, a_u, f_u, g_u) before the first trial:
\* both end points at 0, f = psi(0) = 0, g = psi'(0)
InitialInterval(d_phi_0) ==
  [a_l |-> Num(0), f_l |-> Num(0), g_l |-> auxilaryFunction_dPsiMT(Num(d_phi_0), d_phi_0),
   a_u |-> Num(0), f_u |-> Num(0), g_u |-> auxilaryFunction_dPsiMT(Num(d_phi_0), d_phi_0)]

\* updateIntervalMT: the updated interval and the value returned
updateIntervalMT(I, a_t, f_t, g_t) ==
  IF Gt(f_t, I.f_l)
  THEN [I |-> [I EXCEPT !.a_u = a_t, !.f_u = f_t, !.g_u = g_t], ret |-> FALSE]
  ELSE IF ProductSign(g_t, Minus(I.a_l, a_t)) > 0
  THEN [I |-> [I EXCEPT !.a_l = a_t, !.f_l = f_t, !.g_l = g_t], ret |-> FALSE]
  ELSE IF ProductSign(g_t, Minus(I.a_l, a_t)) < 0
  THEN [I |-> [a_u |-> I.a_l, f_u |-> I.f_l, g_u |-> I.g_l,
               a_l |-> a_t, f_l |-> f_t, g_l |-> g_t], ret |-> FALSE]
  ELSE [I |-> I, ret |-> TRUE]

\* whether the minimizer of the cubic through (a_x, f_x, g_x) and
\* (a_t, f_t, g_t) is NaN: z = 3 (f_t - f_x) / (a_t - a_x) - g_t - g_x is
\* NaN or infinite when a_t == a_x, and w = sqrt(z * z - g_t * g_x) is NaN
\* when its argument is negative
CubicIsNaN(a_x, f_x, g_x, a_t, f_t, g_t) ==
  \/ a_x.nan \/ f_x.nan \/ g_x.nan \/ a_t.nan \/ f_t.nan \/ g_t.nan
  \/ a_t.v = a_x.v
  \/ /\ ProductSign(g_t, g_x) > 0
     /\ LET da == a_t.v - a_x.v
            zda == 3 * (f_t.v - f_x.v) - (g_t.v + g_x.v) * da
        IN zda * zda < g_t.v * g_x.v * da * da

\* trialValueSelectionMT: whether the next trial value is NaN.  Its value is
\* not kept: the search loop runs only when step_max <= step_min, and then
\* std::min(a_t, step_max) followed by std::max(a_t, step_min) turns every
\* number into step_min and leaves a NaN a NaN.
\*   case 1 returns a_c or (a_q + a_c) / 2: NaN when the cubic is;
\*   case 2 returns a_c or a_s, and a_s when a_c is NaN;
\*   case 3 returns std::min or std::max of a_t + 0.66 (a_u - a_t) and the
\*          interpolated value, which is the first when the second is NaN;
\*   case 4 returns the cubic through (a_u, f_u, g_u).
trialValueSelectionMT(I, a_t, f_t, g_t) ==
  IF Gt(f_t, I.f_l)
  THEN [nan |-> CubicIsNaN(I.a_l, I.f_l, I.g_l, a_t, f_t, g_t)]
  ELSE IF ProductSign(g_t, I.g_l) < 0
  THEN [nan |-> a_t.nan \/ I.a_l.nan \/ g_t.nan \/ I.g_l.nan]
  ELSE IF ~g_t.nan /\ ~I.g_l.nan /\ Abs(g_t.v) <= Abs(I.g_l.v)
  THEN [nan |-> a_t.nan \/ I.a_u.nan]
  ELSE [nan |-> CubicIsNaN(I.a_u, I.f_u, I.g_u, a_t, f_t, g_t)]

\* calcScore(param, source_grid, x + step_dir * a_t, target_grid, false).
\* At a NaN pose every distance is NaN, so every pair contributes zero.
TrialScore(grid, x, step_dir, a_t) ==
  IF a_t.nan THEN ScoreZero ELSE calcScore(grid, Plus(x, Scale(step_dir, a_t.v)))

\* a trial step with phi, phi', psi and psi' at it
Trial(grid, x, step_dir, a_t, phi_0, d_phi_0) ==
  LET score_vals == TrialScore(grid, x, step_dir, a_t)
      phi_t == IF score_vals.nan THEN NaN ELSE Num(0 - score_vals.value)
      d_phi_t == IF score_vals.nan THEN NaN
                 ELSE Num(0 - Dot(score_vals.gradient, step_dir))
  IN [a_t |-> a_t, phi_t |-> phi_t, d_phi_t |-> d_phi_t,
      psi_t |-> auxilaryFunction_PsiMT(a_t, phi_t, phi_0, d_phi_0),
      d_psi_t |-> auxilaryFunction_dPsiMT(d_phi_t, d_phi_0)]

\* psi_t <= 0
SufficientDecrease(t) == Le(t.psi_t, Num(0))
\* d_phi_t <= -nu * d_phi_0
CurvatureCondition(t, d_phi_0) ==
  ~t.d_phi_t.nan /\ NuDen * t.d_phi_t.v <= (0 - NuNum) * d_phi_0

\* step_iterations < max_step_iterations
StepIterationsLeft_OffByOne(step_iterations) == step_iterations <= max_step_iterations
StepIterationsLeft(step_iterations) == step_iterations < max_step_iterations

\* the loop condition of the search
SearchGoesOn(c, S) ==
  /\ ~S.interval_converged
  /\ StepIterationsLeft(S.step_iterations)
  /\ ~(SufficientDecrease(S.t) /\ CurvatureCondition(S.t, c.d_phi_0))

\* f_l and g_l (f_u and g_u) converted from psi to phi when the interval closes
PsiToPhi_f(c, f, a) ==
  IF f.nan \/ a.nan THEN NaN ELSE Num(f.v + MuDen * c.phi_0 - c.d_phi_0 * a.v)
PsiToPhi_g(c, g) == IF g.nan THEN NaN ELSE Num(g.v + c.d_phi_0)

\* the next trial step: trialValueSelectionMT on psi while the interval is
\* open and on phi once it is closed, then the two clamps.  The loop is
\* entered only with step_max <= step_min, where the clamps turn every number
\* into step_min and leave a NaN a NaN.
NextTrialStep(c, S) ==
  IF (IF S.open_interval
      THEN trialValueSelectionMT(S.I, S.t.a_t, S.t.psi_t, S.t.d_psi_t)
      ELSE trialValueSelectionMT(S.I, S.t.a_t, Scaled(S.t.phi_t),
                                 Scaled(S.t.d_phi_t))).nan
  THEN NaN ELSE Num(c.step_min)

\* open_interval && (psi_t <= 0 && d_psi_t >= 0)
IntervalCloses(S, t) ==
  S.open_interval /\ Le(t.psi_t, Num(0)) /\ Le(Num(0), t.d_psi_t)

\* the interval with f and g converted from psi to phi
ClosedInterval(c, I) ==
  [a_l |-> I.a_l, f_l |-> PsiToPhi_f(c, I.f_l, I.a_l), g_l |-> PsiToPhi_g(c, I.g_l),
   a_u |-> I.a_u, f_u |-> PsiToPhi_f(c, I.f_u, I.a_u), g_u |-> PsiToPhi_g(c, I.g_u)]

\* the end of an iteration: updateIntervalMT on psi or on phi, step_iterations++
SearchUpdate(S, I, open_interval, t) ==
  [I |-> I, open_interval |-> open_interval, t |-> t,
   trials |-> Append(S.trials, t.a_t),
   step_iterations |-> S.step_iterations + 1,
   upd |-> IF open_interval
           THEN updateIntervalMT(I, t.a_t, t.psi_t, t.d_psi_t)
           ELSE updateIntervalMT(I, t.a_t, Scaled(t.phi_t), Scaled(t.d_phi_t))]

\* one iteration of the search loop from state S, t being the new trial
SearchIteration(c, S, t) ==
  IF IntervalCloses(S, t)
  THEN SearchUpdate(S, ClosedInterval(c, S.I), FALSE, t)
  ELSE SearchUpdate(S, S.I, S.open_interval, t)

\* the state after an iteration
SearchState(U) ==
  [I |-> U.upd.I, open_interval |-> U.open_interval,
   interval_converged |-> U.upd.ret, step_iterations |-> U.step_iterations,
   t |-> U.t, trials |-> U.trials]

\* the search loop from state S: the interval, open_interval,
\* interval_converged, step_iterations, the current trial and the trial
\* steps at which the score was evaluated so far
RECURSIVE SearchLoop(_, _)
SearchLoop(c, S) ==
  IF ~SearchGoesOn(c, S) THEN S
  ELSE SearchLoop(c, SearchState(SearchIteration(c, S,
         Trial(c.grid, c.x, c.step_dir, NextTrialStep(c, S), c.phi_0, c.d_phi_0))))

\* the state before the loop: the first trial is the clamped step_init
SearchStart(c, step_init) ==
  [I |-> InitialInterval(c.d_phi_0), open_interval |-> TRUE,
   interval_converged |-> (c.step_max - c.step_min) > 0,
   step_iterations |-> 0,
   t |-> Trial(c.grid, c.x, c.step_dir,
               Num(Max(Min(step_init, c.step_max), c.step_min)), c.phi_0, c.d_phi_0),
   trials |-> <<Num(Max(Min(step_init, c.step_max), c.step_min))>>]

\* what a call of computeStepLengthMT leaves: the step length returned, the
\* direction passed in and the direction left in the caller's vector, the
\* slope phi'(0) computed at entry and the d_phi_0 the search used, and the
\* course of the search
NoSearch ==
  [called |-> FALSE, x |-> Zero3, step_min |-> 0, step_max |-> 0,
   a_t |-> Num(0), step_dir_in |-> Zero3, step_dir |-> Zero3,
   slope |-> 0, d_phi_0 |-> 0,
   trials |-> << >>, step_iterations |-> 0, reported |-> FALSE,
   decrease |-> FALSE, curvature |-> FALSE]

\* the result of a search that ended in state S
SearchResult(called, c, S) ==
  [called EXCEPT !.a_t = S.t.a_t, !.step_dir = c.step_dir, !.d_phi_0 = c.d_phi_0,
                 !.trials = S.trials,
                 !.step_iterations = S.step_iterations,
                 !.reported = S.step_iterations > 0 /\ S.interval_converged,
                 !.decrease = SufficientDecrease(S.t),
                 !.curvature = CurvatureCondition(S.t, c.d_phi_0)]

\* the search along a direction whose slope is not 0: a positive slope
\* reverses the direction and changes the sign of d_phi_0
SearchAlong(called, c, step_init) ==
  SearchResult(called, c, SearchLoop(c, SearchStart(c, step_init)))

\* step_dir after the test of d_phi_0: a direction that is not a descent
\* direction is left as it is
DescentDirection_Kept(step_dir, d_phi_0) == step_dir
\* step_dir after the test of d_phi_0: step_dir *= -1 when d_phi_0 > 0
DescentDirection(step_dir, d_phi_0) ==
  IF d_phi_0 > 0 THEN Scale(step_dir, -1) ELSE step_dir

\* d_phi_0 after the test: d_phi_0 *= -1 when d_phi_0 > 0
DescentSlope(d_phi_0) == IF d_phi_0 > 0 THEN 0 - d_phi_0 ELSE d_phi_0

\* computeStepLengthMT(x, step_dir, step_init, step_max, step_min, ..., score)
computeStepLengthMT(x, step_dir, step_init, step_max, step_min, grid, score) ==
  LET slope == 0 - Dot(score.gradient, step_dir)
      called == [NoSearch EXCEPT !.called = TRUE, !.x = x, !.step_min = step_min,
                                 !.step_max = step_max, !.step_dir_in = step_dir,
                                 !.step_dir = step_dir, !.slope = slope]
  IN IF slope = 0 THEN called
     ELSE SearchAlong(called,
            [grid |-> grid, x |-> x, phi_0 |-> 0 - score.value,
             step_dir |-> DescentDirection(step_dir, slope),
             d_phi_0 |-> DescentSlope(slope),
             step_min |-> step_min, step_max |-> step_max],
            step_init)

----------------------------------------------------------------------------
(* The D2D object *)

\* exp(-0.5) = 0.6065..., as the quotient ExpMinusHalfNum / ExpMinusHalfDen
ExpMinusHalfNum == 607
ExpMinusHalfDen == 1000

\* the sign of a double, or NaN
Negative == [nan |-> FALSE, sign |-> -1]
IsZero == [nan |-> FALSE, sign |-> 0]
Positive == [nan |-> FALSE, sign |-> 1]
NotANumber == [nan |-> TRUE, sign |-> 0]

\* the sign of log(a) - log(b): log is increasing, log(0) is -infinity and
\* the log of a negative number is NaN
LogDifference(a, b) ==
  IF a < 0 \/ b < 0 \/ (a = 0 /\ b = 0) THEN NotANumber
  ELSE IF a < b THEN Negative
  ELSE IF a > b THEN Positive
  ELSE IsZero

\* gauss_c1 = 10 * (1 - outlier_ratio), in 1/1600 (outlier_ratio in hundredths)
gauss_c1_Swapped(outlier_ratio) == 160 * (outlier_ratio - 100)
gauss_c1(outlier_ratio) == 160 * (100 - outlier_ratio)

\* gauss_c2 = outlier_ratio / resolution^2 with resolution = 1 / cell_size,
\* in 1/1600 (cell_size in quarters)
gauss_c2(outlier_ratio, cell_size) == outlier_ratio * cell_size * cell_size

\* gauss_d1_ = -log(c1 + c2) - d3 with d3 = -log(c2): log(c2) - log(c1 + c2)
gauss_d1(c1, c2) == LogDifference(c2, c1 + c2)

\* gauss_d2_ = -2 * log((-log(c1 * exp(-0.5) + c2) - d3) / gauss_d1_):
\* with x = c1 * exp(-0.5) + c2 and y = c1 + c2 the quotient is
\* q = (log(c2) - log(x)) / (log(c2) - log(y)), and gauss_d2_ is positive when
\* 0 <= q < 1, zero when q = 1, negative when q > 1 and NaN when q < 0
gauss_d2(c1, c2) ==
  LET x == c1 * ExpMinusHalfNum + c2 * ExpMinusHalfDen
      y == (c1 + c2) * ExpMinusHalfDen
      z == c2 * ExpMinusHalfDen
      num == LogDifference(z, x)
      den == LogDifference(z, y)
  IN IF num.nan \/ den.nan THEN NotANumber
     ELSE IF z = 0 THEN NotANumber                 \* infinity / infinity
     ELSE IF y = 0 THEN Positive                   \* q = 0: -2 * log(0)
     ELSE IF den.sign = 0
          THEN IF num.sign > 0 THEN Negative ELSE NotANumber
     ELSE IF num.sign * den.sign < 0 THEN NotANumber
     ELSE IF num.sign = 0 THEN Positive
     ELSE IF x = y THEN IsZero
     ELSE IF (num.sign < 0 /\ x < y) \/ (num.sign > 0 /\ x > y) THEN Positive
     ELSE Negative

\* FittingParams(outlier_ratio, 1 / cell_size): the two arguments and the
\* signs of the constants calcParams computes from them
FittingParams(outlier_ratio, cell_size) ==
  LET c1 == gauss_c1(outlier_ratio)
      c2 == gauss_c2(outlier_ratio, cell_size)
  IN [outlier_ratio |-> outlier_ratio, cell_size |-> cell_size,
      gauss_d1_ |-> gauss_d1(c1, c2), gauss_d2_ |-> gauss_d2(c1, c2)]

\* initParams
initParams(o) ==
  [o EXCEPT !.params_ =
     [k \in 1..Len(o.cell_sizes_) |-> FittingParams(o.outlier_ratio_, o.cell_sizes_[k])]]

RECURSIVE Pow2(_)
Pow2(k) == IF k <= 0 THEN 1 ELSE 2 * Pow2(k - 1)

\* initCellSizes(base_size): base * 2^(layer_count-1), ..., base * 2, base
initCellSizes(o, base_size) ==
  [o EXCEPT !.cell_sizes_ =
     [k \in 1..o.layer_count_ |-> base_size * Pow2(o.layer_count_ - k)]]

\* 3x3 matrices held in covariance_ and inform_matrix_
M3Unset == [kind |-> "unset", of |-> Zero3, xy |-> 0]
M3Identity == [kind |-> "identity", of |-> Zero3, xy |-> 0]
M3Hessian(score) == [kind |-> "hessian", of |-> score.hessian, xy |-> score.hessian_xy]
M3Inverse(score) == [kind |-> "inverse", of |-> score.hessian, xy |-> score.hessian_xy]

\* the constructor
D2DConstructed ==
  initParams(initCellSizes(
    [cell_sizes_ |-> << >>, params_ |-> << >>, layer_count_ |-> 4,
     step_size_ |-> 2, outlier_ratio_ |-> 55, max_iterations_ |-> 35,
     transformation_epsilon_ |-> 2, nr_iterations_ |-> 0, converged_ |-> FALSE,
     final_transformation_ |-> Identity, previous_transformation_ |-> Identity,
     transformation_ |-> Identity,
     trans_probability_ |-> [num |-> 0, den |-> 1],
     covariance_ |-> M3Unset, inform_matrix_ |-> M3Unset,
     clouds_ |-> {}], 1))

\* std::sort followed by std::reverse: non-increasing order
RECURSIVE InsertDescending(_, _)
InsertDescending(x, q) ==
  IF q = << >> THEN <<x>>
  ELSE IF x >= Head(q) THEN <<x>> \o q
  ELSE <<Head(q)>> \o InsertDescending(x, Tail(q))

RECURSIVE SortDescending(_)
SortDescending(q) ==
  IF q = << >> THEN << >> ELSE InsertDescending(Head(q), SortDescending(Tail(q)))

\* setNumLayers(num).  The source calls initCellSizes() without the
\* base_size argument its only declaration requires, and the object keeps no
\* base: the base that reaches initCellSizes is not determined by the code
\* and is a parameter here.
setNumLayers(o, num, base_size) ==
  initParams(initCellSizes([o EXCEPT !.layer_count_ = num], base_size))

\* setCellSize(float cell_size): initCellSizes always returns true
setCellSize(o, cell_size) == initParams(initCellSizes(o, cell_size))

\* setCellSize(const std::vector<float> &)
setCellSizes(o, cell_sizes) ==
  initParams([o EXCEPT !.layer_count_ = Len(cell_sizes),
                       !.cell_sizes_ = SortDescending(cell_sizes)])

\* setOulierRatio without the initParams() call
setOulierRatio_NoInitParams(o, outlier_ratio) ==
  [o EXCEPT !.outlier_ratio_ = outlier_ratio]

\* setOulierRatio
setOulierRatio(o, outlier_ratio) ==
  initParams([o EXCEPT !.outlier_ratio_ = outlier_ratio])

\* setMaximumIterations (pcl::Registration)
setMaximumIterations(o, k) == [o EXCEPT !.max_iterations_ = k]

\* setStepSize
setStepSize(o, step_size) == [o EXCEPT !.step_size_ = step_size]

\* setTransformationEpsilon (pcl::Registration)
setTransformationEpsilon(o, epsilon) == [o EXCEPT !.transformation_epsilon_ = epsilon]

\* setInputSource and setInputTarget: input_ and target_ are known by the
\* grids the two clouds can give at the resolutions and poses of a run
setInputClouds(o, grids) == [o EXCEPT !.clouds_ = grids]

----------------------------------------------------------------------------
(* D2D align: computeTransformation and computeSingleGrid *)

FrameIdle ==
  [pc |-> "idle", guess |-> Identity, trans |-> Identity, i |-> 0,
   grid |-> << >>, xytheta_p |-> Zero3, p |-> Identity,
   score |-> ScoreZero, evaluated |-> FALSE,
   delta_p_norm |-> 0, norm_nan |-> FALSE, alpha |-> Num(0),
   pose_nan |-> FALSE, mt |-> NoSearch,
   output |-> [written |-> FALSE, by |-> Identity]]

HistEmpty ==
  [sizes |-> << >>, starts |-> << >>, rets |-> << >>,
   insufficient |-> FALSE, inner_converged |-> FALSE, reversed |-> FALSE,
   d2d_runs |-> 0, corr_runs |-> 0]

\* entry of computeTransformation(output, guess): trans = guess
EnterAlign(guess) ==
  [FrameIdle EXCEPT !.pc = "for", !.guess = guess, !.trans = guess,
                    !.output = fr.output]

\* the history of a D2D run starts empty; the run counters go on
HistOnAlign ==
  [HistEmpty EXCEPT !.d2d_runs = hist.d2d_runs + 1, !.corr_runs = hist.corr_runs]

\* align(output, guess) on a stand-alone D2D object
Align ==
  /\ fr.pc = "idle"
  /\ rob.pc = "none"
  /\ \E guess \in GuessSet :
       /\ fr' = EnterAlign(guess)
       /\ hist' = HistOnAlign
  /\ UNCHANGED <<d2d, rob, omp>>

\* the same pass without final_transformation_ = guess at the entry of
\* computeSingleGrid
BuildGrids_FinalNotInitialised ==
  /\ fr.pc = "for"
  /\ fr.i < Len(d2d.cell_sizes_)
  /\ \E grid \in d2d.clouds_ :
       fr' = [fr EXCEPT !.pc = "while", !.grid = grid,
                        !.xytheta_p = matToVec(fr.trans),
                        !.evaluated = FALSE]
  /\ d2d' = [d2d EXCEPT !.nr_iterations_ = 0, !.converged_ = FALSE,
                        !.previous_transformation_ = d2d.final_transformation_]
  /\ hist' = [hist EXCEPT !.sizes = Append(@, d2d.cell_sizes_[fr.i + 1]),
                          !.starts = Append(@, matToVec(fr.trans))]
  /\ UNCHANGED <<rob, omp>>

\* one pass of the for loop up to the while loop: both grids are built at
\* cell_sizes_[i] and computeSingleGrid initialises its state from the guess
BuildGrids ==
  /\ fr.pc = "for"
  /\ fr.i < Len(d2d.cell_sizes_)
  /\ \E grid \in d2d.clouds_ :
       fr' = [fr EXCEPT !.pc = "while", !.grid = grid,
                        !.xytheta_p = matToVec(fr.trans),
                        !.evaluated = FALSE]
  /\ d2d' = [d2d EXCEPT !.nr_iterations_ = 0, !.converged_ = FALSE,
                        !.final_transformation_ = fr.trans,
                        !.previous_transformation_ = fr.trans]
  /\ hist' = [hist EXCEPT !.sizes = Append(@, d2d.cell_sizes_[fr.i + 1]),
                          !.starts = Append(@, matToVec(fr.trans))]
  /\ UNCHANGED <<rob, omp>>

\* the convergence test with the cap compared by > instead of >=
ConvergenceTest_CapExceeded(nr_iterations, alpha, o) ==
  \/ nr_iterations > o.max_iterations_
  \/ (nr_iterations # 0 /\ ~alpha.nan /\ Abs(alpha.v) < o.transformation_epsilon_)

\* the convergence test at the end of a Newton iteration
ConvergenceTest(nr_iterations, alpha, o) ==
  \/ nr_iterations >= o.max_iterations_
  \/ (nr_iterations # 0 /\ ~alpha.nan /\ Abs(alpha.v) < o.transformation_epsilon_)

\* one iteration of while (!converged_)
NewtonIteration ==
  /\ fr.pc = "while"
  /\ ~d2d.converged_
  /\ LET score == IF fr.pose_nan THEN ScoreZero
                  ELSE calcScore(fr.grid, fr.xytheta_p)
         delta == Solve(score)
         prob == [num |-> score.value, den |-> NumPoints]
     IN IF score.nan \/ Norm(delta) = 0
        THEN \* delta_p_norm == 0 || delta_p_norm != delta_p_norm
          /\ d2d' = [d2d EXCEPT !.trans_probability_ = prob,
                                !.converged_ = ~score.nan,
                                !.covariance_ = M3Identity,
                                !.inform_matrix_ = M3Identity]
          /\ fr' = [fr EXCEPT !.pc = "failed", !.score = score,
                              !.evaluated = TRUE, !.delta_p_norm = 0,
                              !.norm_nan = score.nan]
          /\ hist' = [hist EXCEPT !.insufficient = TRUE,
                                  !.inner_converged = ~score.nan]
        ELSE
          LET mt == computeStepLengthMT(fr.xytheta_p, Normalized(delta),
                                        Norm(delta), d2d.step_size_,
                                        d2d.transformation_epsilon_ \div 2,
                                        fr.grid, score)
              x == Plus(fr.xytheta_p, Scale(mt.step_dir, mt.a_t.v))
              nr == d2d.nr_iterations_ + 1
              conv == ConvergenceTest(nr, mt.a_t, d2d)
          IN /\ d2d' = [d2d EXCEPT !.nr_iterations_ = nr,
                                   !.previous_transformation_ = d2d.transformation_,
                                   !.transformation_ = vecToMat(x),
                                   !.trans_probability_ = prob,
                                   !.converged_ = conv]
             /\ fr' = [fr EXCEPT !.pc = IF conv THEN "exit" ELSE "while",
                                 !.xytheta_p = x, !.p = vecToMat(x),
                                 !.score = score, !.evaluated = TRUE,
                                 !.delta_p_norm = Norm(delta),
                                 !.norm_nan = FALSE, !.alpha = mt.a_t,
                                 !.pose_nan = mt.a_t.nan, !.mt = mt]
             /\ hist' = [hist EXCEPT !.reversed = @ \/ mt.slope > 0]
  /\ UNCHANGED <<rob, omp>>

\* computeSingleGrid with trans passed by value: the caller's pose is not updated
SingleGridReturn_TransByValue ==
  /\ fr.pc = "exit"
  /\ d2d' = [d2d EXCEPT !.covariance_ = M3Hessian(fr.score),
                        !.inform_matrix_ = M3Inverse(fr.score)]
  /\ fr' = [fr EXCEPT !.pc = "for", !.i = fr.i + 1]
  /\ hist' = [hist EXCEPT !.rets = Append(@, fr.p)]
  /\ UNCHANGED <<rob, omp>>

\* computeSingleGrid returns true: trans = p, and the for loop goes on
SingleGridReturn ==
  /\ fr.pc = "exit"
  /\ d2d' = [d2d EXCEPT !.covariance_ = M3Hessian(fr.score),
                        !.inform_matrix_ = M3Inverse(fr.score)]
  /\ fr' = [fr EXCEPT !.pc = "for", !.trans = fr.p, !.i = fr.i + 1]
  /\ hist' = [hist EXCEPT !.rets = Append(@, fr.p)]
  /\ UNCHANGED <<rob, omp>>

\* the abort without converged_ = false
AlignAbort_KeepFlag ==
  /\ fr.pc = "failed"
  /\ fr' = [fr EXCEPT !.pc = "done"]
  /\ UNCHANGED <<d2d, rob, omp, hist>>

\* computeSingleGrid returned false: converged_ = false; return
AlignAbort ==
  /\ fr.pc = "failed"
  /\ d2d' = [d2d EXCEPT !.converged_ = FALSE]
  /\ fr' = [fr EXCEPT !.pc = "done"]
  /\ UNCHANGED <<rob, omp, hist>>

\* after the last resolution: the cloud is transformed, the result kept
AlignFinish ==
  /\ fr.pc = "for"
  /\ fr.i >= Len(d2d.cell_sizes_)
  /\ d2d' = [d2d EXCEPT !.final_transformation_ = fr.trans,
                        !.converged_ = TRUE]
  /\ fr' = [fr EXCEPT !.pc = "done",
                      !.output = [written |-> TRUE, by |-> fr.trans]]
  /\ UNCHANGED <<rob, omp, hist>>

D2DRun == BuildGrids \/ NewtonIteration \/ SingleGridReturn \/ AlignAbort \/ AlignFinish

----------------------------------------------------------------------------
(* The stand-alone D2D object: configured, then aligned once *)

RobIdle ==
  [pc |-> "none", guess |-> Identity, converged_ |-> FALSE,
   final_transformation_ |-> Identity, cell_size_ |-> 1,
   trans_probability_ |-> 0,
   score |-> 0, score2 |-> 0,
   first_trans |-> [set |-> FALSE, val |-> Identity],
   memo |-> {},
   T1 |-> Identity, conv1 |-> FALSE, corr_conv |-> FALSE, T_corr |-> Identity,
   T2 |-> Identity, conv2 |-> FALSE, direct |-> FALSE]
OmpIdle == [pc |-> "none"]

\* n cell sizes 2^(n-1), ..., 2, 1 (in quarters), as a caller lists them
Halving(n) == [k \in 1..n |-> Pow2(n - k)]

Init ==
  /\ \E k \in 0..MaxIterations, n \in 0..MaxLayers :
       d2d = setInputClouds(
               setMaximumIterations(setCellSizes(D2DConstructed, Halving(n)), k),
               GridSet)
  /\ fr = FrameIdle
  /\ rob = RobIdle
  /\ omp = OmpIdle
  /\ hist = HistEmpty

Next == Align \/ D2DRun

Spec == Init /\ [][Next]_vars

----------------------------------------------------------------------------
(* The stand-alone D2D object with the line search configured: the caller  *)
(* sets step_size and transformation_epsilon (0.1 is 2, so epsilon / 2 is   *)
(* exact), then aligns.  step_min = epsilon / 2 is below, at or above       *)
(* step_max = step_size; with epsilon = 2.1 it is 21 steps of 0.05.         *)

StepSizeSet == {2, 4}
EpsilonSet == {2, 4, 6, 8, 42}

\* grids that move the pose along x only: a minimum one, three and eleven
\* steps away (a step of 21 from 0 passes the last one and ends lower but
\* steeper than 0.9 of the initial slope), a maximum (the Newton direction is
\* an ascent direction of phi), and a saddle whose Newton direction is
\* orthogonal to the gradient
SearchGridSet ==
  { << <<Quad(1, 1, -1)>> >>,
    << <<Quad(1, 3, -1)>>, <<Singular>> >>,
    << <<Quad(1, 11, -1)>> >>,
    << <<Quad(1, -2, 1)>> >>,
    << <<Cross(3, 1)>> >> }

InitSearch ==
  /\ \E step_size \in StepSizeSet, epsilon \in EpsilonSet,
        k \in 1..MaxIterations, n \in {1, 2} :
       d2d = setInputClouds(
               setTransformationEpsilon(
                 setStepSize(
                   setMaximumIterations(setCellSizes(D2DConstructed, Halving(n)), k),
                   step_size),
                 epsilon),
               SearchGridSet)
  /\ fr = FrameIdle
  /\ rob = RobIdle
  /\ omp = OmpIdle
  /\ hist = HistEmpty

NextSearch == Align \/ D2DRun

SpecSearch == InitSearch /\ [][NextSearch]_vars

----------------------------------------------------------------------------
(* The robust wrapper *)

\* d2d_.setMaximumIterations(10)
RobustMaxIterations == 10
\* score > 0.7
TauGood == 7
\* score > 0.6
TauSalvage == 6
\* score2 < 0.4
TauAccept == 4

\* validator scores (tenths) the lookup table may return, in [0, 1]
ScoreSet == {3, 4, 6, 7, 8}
\* guesses the wrapper is called with
RobustGuessSet == {Identity, Mat(1, 0, 0, 1)}
\* final transformations of the correlative estimator
CorrSet == {Mat(2, 0, 0, 0), Mat(0, 1, 0, 0)}
\* values an unassigned Matrix4f may hold
Indeterminate == RobustGuessSet \cup CorrSet

\* the constructor: the inner D2D gets four cell sizes and 10 iterations
RobustConstructed ==
  setMaximumIterations(
    setCellSizes(setMaximumIterations(D2DConstructed, RobustMaxIterations),
                 <<8, 4, 2, 1>>),
    RobustMaxIterations)

\* proofTransform(trans): the lookup table's score of the source cloud moved
\* by trans, a function of trans within one call
ProofScores(memo, trans) ==
  IF \E m \in memo : m.trans = trans
  THEN {m.score : m \in {n \in memo : n.trans = trans}}
  ELSE ScoreSet

\* the test on the first D2D run: converged and score > 0.7
DirectAccepted_WrongThreshold(converged, score) == converged /\ score > TauGood + 1
DirectAccepted(converged, score) == converged /\ score > TauGood

\* the test on the second D2D run: !d2d_.hasConverged()
SecondRejected_NoCheck(converged) == FALSE
SecondRejected(converged) == ~converged

\* the final arbitration: converged_ and final_transformation_
\* the arbitration that accepts first_trans whatever score is
Arbitrate_NoSalvageThreshold(score, score2, first_trans, d2d_final) ==
  IF score2 < TauAccept
  THEN [converged_ |-> TRUE, final_transformation_ |-> first_trans]
  ELSE [converged_ |-> TRUE, final_transformation_ |-> d2d_final]
Arbitrate_WrongBoundary(score, score2, first_trans, d2d_final) ==
  IF score2 <= TauAccept
  THEN IF score > TauSalvage
       THEN [converged_ |-> TRUE, final_transformation_ |-> first_trans]
       ELSE [converged_ |-> FALSE, final_transformation_ |-> Identity]
  ELSE [converged_ |-> TRUE, final_transformation_ |-> d2d_final]
Arbitrate(score, score2, first_trans, d2d_final) ==
  IF score2 < TauAccept
  THEN IF score > TauSalvage
       THEN [converged_ |-> TRUE, final_transformation_ |-> first_trans]
       ELSE [converged_ |-> FALSE, final_transformation_ |-> Identity]
  ELSE [converged_ |-> TRUE, final_transformation_ |-> d2d_final]

\* the early returns: converged_ = false; final_transformation_.setIdentity()
NoAlignment(r) ==
  [r EXCEPT !.pc = "done", !.converged_ = FALSE, !.final_transformation_ = Identity]

\* score2, the arbitration and the transform of the output cloud
Scored(r, score, score2, first_trans) ==
  LET a == Arbitrate(score, score2, first_trans, d2d.final_transformation_)
  IN [r EXCEPT !.pc = "done", !.score2 = score2,
               !.memo = @ \cup {[trans |-> d2d.final_transformation_, score |-> score2]},
               !.converged_ = a.converged_,
               !.final_transformation_ = a.final_transformation_]

InitRobust ==
  /\ d2d = setInputClouds(RobustConstructed, RobustGridSet)
  /\ fr = FrameIdle
  /\ rob = [RobIdle EXCEPT !.pc = "idle"]
  /\ omp = OmpIdle
  /\ hist = HistEmpty

\* align(output, guess) on the wrapper, up to the first d2d_.align
RobustAlign ==
  /\ rob.pc = "idle"
  /\ \E guess \in RobustGuessSet :
       /\ rob' = [rob EXCEPT !.pc = "d2d1", !.guess = guess]
       /\ fr' = EnterAlign(guess)
  /\ hist' = HistOnAlign
  /\ UNCHANGED <<d2d, omp>>

\* from the return of the first d2d_.align: the score, then either the
\* arbitration or the correlative seed and the call of the second d2d_.align
AfterFirstD2D ==
  /\ rob.pc = "d2d1"
  /\ fr.pc = "done"
  /\ UNCHANGED <<d2d, omp>>
  /\ \E score \in ProofScores(rob.memo, d2d.final_transformation_) :
       LET T1 == d2d.final_transformation_
           seen == [rob EXCEPT !.score = score, !.T1 = T1,
                               !.conv1 = d2d.converged_,
                               !.memo = @ \cup {[trans |-> T1, score |-> score]}]
       IN IF DirectAccepted(d2d.converged_, score)
          THEN \* first_trans is not assigned on this path
            /\ \E first_trans \in Indeterminate, score2 \in ProofScores(seen.memo, T1) :
                 rob' = Scored([seen EXCEPT !.direct = TRUE], score, score2, first_trans)
            /\ fr' = [fr EXCEPT !.output = [written |-> TRUE,
                                            by |-> rob'.final_transformation_]]
            /\ hist' = hist
          ELSE \E corr_conv \in BOOLEAN, T_corr \in CorrSet :
            LET saved == [seen EXCEPT !.first_trans = [set |-> TRUE, val |-> T1],
                                      !.corr_conv = corr_conv,
                                      !.T_corr = T_corr]
            IN IF ~corr_conv
               THEN /\ rob' = NoAlignment(saved)
                    /\ fr' = fr
                    /\ hist' = [hist EXCEPT !.corr_runs = @ + 1]
               ELSE /\ rob' = [saved EXCEPT !.pc = "d2d2"]
                    /\ fr' = EnterAlign(T_corr)
                    /\ hist' = [HistOnAlign EXCEPT !.corr_runs = @ + 1]

\* from the return of the second d2d_.align to the end
AfterSecondD2D ==
  /\ rob.pc = "d2d2"
  /\ fr.pc = "done"
  /\ UNCHANGED <<d2d, omp, hist>>
  /\ LET seen == [rob EXCEPT !.T2 = d2d.final_transformation_,
                             !.conv2 = d2d.converged_]
     IN IF SecondRejected(d2d.converged_)
        THEN /\ rob' = NoAlignment(seen)
             /\ fr' = fr
        ELSE \E score2 \in ProofScores(rob.memo, d2d.final_transformation_) :
             /\ rob' = Scored(seen, rob.score, score2, rob.first_trans.val)
             /\ fr' = [fr EXCEPT !.output = [written |-> TRUE,
                                             by |-> rob'.final_transformation_]]

NextRobust == RobustAlign \/ D2DRun \/ AfterFirstD2D \/ AfterSecondD2D

SpecRobust == InitRobust /\ [][NextRobust]_vars

----------------------------------------------------------------------------
(* Claims on the robust wrapper (checked under SpecRobust) *)

\* the first D2D run converged and its score is above 0.7
FirstAccepted == rob.conv1 /\ rob.score > TauGood

\* C1: if the first D2D run converged and its score s1 is > 0.7, the wrapper
\* ends converged with the first run's result T1, and neither the correlative
\* seed nor a second D2D run was executed in the call.
C1_DirectAccept ==
  (rob.pc = "done" /\ FirstAccepted) =>
     /\ rob.converged_
     /\ rob.final_transformation_ = rob.T1
     /\ fr.output = [written |-> TRUE, by |-> rob.T1]
     /\ hist.corr_runs = 0
     /\ hist.d2d_runs = 1

\* a direct accept of a pose that is neither the guess nor the identity
C1_Witness ==
  /\ rob.pc = "done" /\ FirstAccepted
  /\ rob.converged_
  /\ rob.T1 # rob.guess /\ rob.T1 # Identity
  /\ hist.d2d_runs = 1

\* C2: when the first result was not accepted and both the correlative seed
\* and the second D2D run converged: s2 >= 0.4 gives converged with T2;
\* otherwise s1 > 0.6 gives converged with the saved T1; otherwise not
\* converged with the identity.
C2_FallbackArbitration ==
  (rob.pc = "done" /\ ~FirstAccepted /\ rob.corr_conv /\ rob.conv2) =>
     IF rob.score2 >= TauAccept
     THEN rob.converged_ /\ rob.final_transformation_ = rob.T2
     ELSE IF rob.score > TauSalvage
          THEN rob.converged_ /\ rob.final_transformation_ = rob.T1
          ELSE ~rob.converged_ /\ rob.final_transformation_ = Identity

\* the salvage: s2 < 0.4, s1 = 0.7 after a converged first run, T1 returned
C2_Witness ==
  /\ rob.pc = "done" /\ rob.corr_conv /\ rob.conv2
  /\ rob.conv1 /\ rob.score = TauGood
  /\ rob.score2 < TauAccept
  /\ rob.T1 # rob.T2 /\ rob.T1 # Identity
  /\ rob.converged_ /\ rob.final_transformation_ = rob.T1

\* C3: in the fallback path, a correlative seed that does not converge ends
\* the call not converged with the identity and without a second D2D run; a
\* second D2D run (started from T_corr) that does not converge ends it the
\* same way; both for every s1.
C3_FallbackFailures ==
  (rob.pc = "done" /\ ~FirstAccepted) =>
     /\ hist.corr_runs = 1
     /\ ~rob.corr_conv =>
          /\ hist.d2d_runs = 1
          /\ ~rob.converged_ /\ rob.final_transformation_ = Identity
     /\ rob.corr_conv =>
          /\ hist.d2d_runs = 2
          /\ fr.guess = rob.T_corr
          /\ ~rob.conv2 =>
               ~rob.converged_ /\ rob.final_transformation_ = Identity

\* the second D2D run failed although s1 is 0.8
C3_Witness ==
  /\ rob.pc = "done" /\ ~FirstAccepted
  /\ rob.corr_conv /\ ~rob.conv2
  /\ rob.score > TauGood
  /\ ~rob.converged_ /\ rob.final_transformation_ = Identity

\* the getters of the D2D object
getTransformationProbability(o) == o.trans_probability_
getFinalNumIteration(o) == o.nr_iterations_
getCovariance(o) == o.covariance_
getInformMatrix(o) == o.inform_matrix_

\* the getters of the wrapper: three forward to d2d_, the probability is the
\* wrapper's own member, which the constructor sets to 0 and nothing assigns
Robust_getTransformationProbability(r, o) == [num |-> r.trans_probability_, den |-> 1]
Robust_getFinalNumIteration(r, o) == getFinalNumIteration(o)
Robust_getCovariance(r, o) == getCovariance(o)
Robust_getInformMatrix(r, o) == getInformMatrix(o)

\* equality of two quotients num / den
SameQuotient(a, b) == a.num * b.den = b.num * a.den

\* C11: after a wrapper align call, the wrapper's transformation
\* probability, covariance, information matrix and final number of
\* iterations are the values the inner D2D object holds after its most
\* recent run.
C11_GettersDelegated ==
  rob.pc = "done" =>
     /\ SameQuotient(Robust_getTransformationProbability(rob, d2d),
                     getTransformationProbability(d2d))
     /\ Robust_getFinalNumIteration(rob, d2d) = d2d.nr_iterations_
     /\ Robust_getCovariance(rob, d2d) = d2d.covariance_
     /\ Robust_getInformMatrix(rob, d2d) = d2d.inform_matrix_

----------------------------------------------------------------------------
(* The wrapper's own setters, called before align *)

\* the wrapper's setters: each forwards to d2d_; setCellSize also keeps the
\* value in the wrapper's cell_size_
Robust_setNumLayers(o, num, base_size) == setNumLayers(o, num, base_size)
Robust_setCellSize(o, base_size) == setCellSize(o, base_size)
Robust_setStepSize(o, step_size) == setStepSize(o, step_size)
Robust_setOulierRatio(o, outlier_ratio) == setOulierRatio(o, outlier_ratio)

\* the cell sizes the wrapper's constructor gives the inner D2D, in quarters
RobustCellSizes == <<8, 4, 2, 1>>

\* arguments of the wrapper's setters
RobustLayerSet == {2, 4}
RobustBaseSet == {1, 2}
RobustStepSet == {2, 4}
RobustRatioSet == {35, 55}
\* the clouds of these runs: one regular pair per grid, or no overlap at all
RobustCfgGridSet ==
  { << >>, << <<Quad(1, 1, -1)>> >>, << <<Quad(1, 2, -1)>> >> }

InitRobustCfg ==
  /\ d2d = setInputClouds(RobustConstructed, RobustCfgGridSet)
  /\ fr = FrameIdle
  /\ rob = [RobIdle EXCEPT !.pc = "idle"]
  /\ omp = OmpIdle
  /\ hist = HistEmpty

RobustCallSetNumLayers ==
  /\ rob.pc = "idle"
  /\ \E num \in RobustLayerSet, base_size \in RobustBaseSet :
       d2d' = Robust_setNumLayers(d2d, num, base_size)
  /\ UNCHANGED <<fr, rob, omp, hist>>

RobustCallSetCellSize ==
  /\ rob.pc = "idle"
  /\ \E base_size \in RobustBaseSet :
       /\ d2d' = Robust_setCellSize(d2d, base_size)
       /\ rob' = [rob EXCEPT !.cell_size_ = base_size]
  /\ UNCHANGED <<fr, omp, hist>>

RobustCallSetStepSize ==
  /\ rob.pc = "idle"
  /\ \E step_size \in RobustStepSet : d2d' = Robust_setStepSize(d2d, step_size)
  /\ UNCHANGED <<fr, rob, omp, hist>>

RobustCallSetOulierRatio ==
  /\ rob.pc = "idle"
  /\ \E outlier_ratio \in RobustRatioSet :
       d2d' = Robust_setOulierRatio(d2d, outlier_ratio)
  /\ UNCHANGED <<fr, rob, omp, hist>>

NextRobustCfg ==
  \/ RobustCallSetNumLayers
  \/ RobustCallSetCellSize
  \/ RobustCallSetStepSize
  \/ RobustCallSetOulierRatio
  \/ NextRobust

SpecRobustCfg == InitRobustCfg /\ [][NextRobustCfg]_vars

\* C12: in every align call of the wrapper, after construction and after any
\* sequence of the wrapper's setCellSize, setNumLayers, setStepSize and
\* setOulierRatio calls, the inner D2D runs with the four cell sizes
\* (2.0, 1.0, 0.5, 0.25) and an iteration cap of 10 per resolution.
C12_FixedCellSizesAndCap ==
  rob.pc \in {"d2d1", "d2d2", "done"} =>
     /\ d2d.cell_sizes_ = RobustCellSizes
     /\ Len(hist.sizes) <= Len(RobustCellSizes)
     /\ \A k \in 1..Len(hist.sizes) : hist.sizes[k] = RobustCellSizes[k]
     /\ d2d.max_iterations_ = RobustMaxIterations

----------------------------------------------------------------------------
(* Configuration of a stand-alone D2D object: any sequence of setter calls *)

\* finest cell sizes passed to setCellSize(float), in quarters
BaseSet == {-1, 0, 1, 2}
\* layer counts passed to setNumLayers
LayerSet == 0..MaxLayers
\* vectors passed to setCellSize(vector)
CellSizeLists ==
  {<< >>, <<1>>, <<1, 2>>, <<4, 1, 2>>, <<2, 2>>, <<0, 1>>, <<-1, 2>>, <<1, 39>>}
\* outlier ratios passed to setOulierRatio, in hundredths
RatioSet == {-10, 0, 2, 35, 55, 98, 100, 150}

\* what the last setter call was, the finest cell size in effect before it,
\* and the error it reported (the setters return void and throw nothing)
HistCfg(call, arg, base, invalid) ==
  [call |-> call, arg |-> arg, base |-> base, invalid |-> invalid,
   reported |-> "none"]

InitCfg ==
  /\ d2d = D2DConstructed
  /\ fr = FrameIdle
  /\ rob = RobIdle
  /\ omp = OmpIdle
  /\ hist = HistCfg("constructor", 0, 1, FALSE)

CallSetNumLayers ==
  /\ \E num \in LayerSet, base_size \in BaseSet :
       /\ d2d' = setNumLayers(d2d, num, base_size)
       /\ hist' = HistCfg("setNumLayers", num, hist.base, FALSE)
  /\ UNCHANGED <<fr, rob, omp>>

CallSetCellSize ==
  /\ \E cell_size \in BaseSet :
       /\ d2d' = setCellSize(d2d, cell_size)
       /\ hist' = HistCfg("setCellSize", cell_size, cell_size, cell_size <= 0)
  /\ UNCHANGED <<fr, rob, omp>>

CallSetCellSizes ==
  /\ \E cell_sizes \in CellSizeLists :
       /\ d2d' = setCellSizes(d2d, cell_sizes)
       /\ hist' = HistCfg("setCellSizes", Len(cell_sizes),
                          IF cell_sizes = << >> THEN hist.base
                          ELSE Last(SortDescending(cell_sizes)),
                          \E k \in 1..Len(cell_sizes) : cell_sizes[k] <= 0)
  /\ UNCHANGED <<fr, rob, omp>>

CallSetOulierRatio ==
  /\ \E outlier_ratio \in RatioSet :
       /\ d2d' = setOulierRatio(d2d, outlier_ratio)
       /\ hist' = HistCfg("setOulierRatio", outlier_ratio, hist.base,
                          outlier_ratio <= 0 \/ outlier_ratio >= 100)
  /\ UNCHANGED <<fr, rob, omp>>

NextCfg == CallSetNumLayers \/ CallSetCellSize \/ CallSetCellSizes \/ CallSetOulierRatio

SpecCfg == InitCfg /\ [][NextCfg]_vars

----------------------------------------------------------------------------
(* Claims on the configuration (checked under SpecCfg) *)

\* C6: after construction and after any sequence of setNumLayers,
\* setCellSize(b) and setCellSize(list) calls, cell_sizes_ is strictly
\* decreasing.
C6_CellSizesStrictlyDecreasing ==
  \A k \in 1..(Len(d2d.cell_sizes_) - 1) : d2d.cell_sizes_[k] > d2d.cell_sizes_[k + 1]

\* C7: after setNumLayers(L), cell_sizes_ has exactly L entries
\* b * 2^(L-1), ..., 2b, b, b being the finest cell size in effect before
\* the call.
C7_SetNumLayersKeepsBase ==
  hist.call = "setNumLayers" =>
    /\ Len(d2d.cell_sizes_) = hist.arg
    /\ \A k \in 1..Len(d2d.cell_sizes_) :
         d2d.cell_sizes_[k] = hist.base * Pow2(hist.arg - k)

\* C8: an outlier ratio outside (0,1) or a cell size <= 0 is reported as
\* InvalidParameter by the setter, and no FittingParams are built from such
\* values.
C8_InvalidParameterRejected ==
  /\ hist.invalid => hist.reported = "InvalidParameter"
  /\ \A k \in 1..Len(d2d.params_) :
       /\ d2d.params_[k].outlier_ratio \in 1..99
       /\ d2d.params_[k].cell_size > 0

\* C21: after construction and after any sequence of setNumLayers,
\* setCellSize(b), setCellSize(list) and setOulierRatio calls, params_ has
\* exactly one entry per cell size, entry i is computed from the current
\* outlier ratio and the resolution 1 / cell_sizes_[i], and layer_count_ is
\* the number of cell sizes, so that params_[i] exists for every i align
\* reaches (i < cell_sizes_.size()).
C21_ParamsFollowCellSizes ==
  /\ Len(d2d.params_) = Len(d2d.cell_sizes_)
  /\ d2d.layer_count_ = Len(d2d.cell_sizes_)
  /\ \A i \in 1..Len(d2d.cell_sizes_) :
       /\ i \in DOMAIN d2d.params_
       /\ d2d.params_[i] = FittingParams(d2d.outlier_ratio_, d2d.cell_sizes_[i])

\* setOulierRatio(0.35) on three cell sizes that are not the constructor's
C21_Witness ==
  /\ hist.call = "setOulierRatio"
  /\ d2d.outlier_ratio_ = 35
  /\ d2d.cell_sizes_ = <<4, 2, 1>>
  /\ Len(d2d.params_) = 3
  /\ d2d.params_[1].outlier_ratio = 35 /\ d2d.params_[1].cell_size = 4

\* the range of the claim: outlier ratio in (0.01, 0.99), cell size in
\* (0.01, 10)
InFittingRange(param) ==
  param.outlier_ratio \in 2..98 /\ param.cell_size \in 1..39

\* C13 as stated: for every outlier ratio in (0.01, 0.99) and every cell size
\* in (0.01, 10) the fitting constants satisfy d1 > 0 and d2 > 0.
C13_FittingConstantsPositive ==
  \A k \in 1..Len(d2d.params_) :
     InFittingRange(d2d.params_[k]) =>
        /\ d2d.params_[k].gauss_d1_ = Positive
        /\ d2d.params_[k].gauss_d2_ = Positive

\* C13 amended: for every outlier ratio in (0.01, 0.99) and every cell size
\* in (0.01, 10) the fitting constants satisfy d1 < 0 and d2 > 0.
C13_FittingConstantsSigns ==
  \A k \in 1..Len(d2d.params_) :
     InFittingRange(d2d.params_[k]) =>
        /\ d2d.params_[k].gauss_d1_ = Negative
        /\ d2d.params_[k].gauss_d2_ = Positive

\* setOulierRatio(0.98) on cell sizes 9.75 and 0.25: both ends of the range
C13_Witness ==
  /\ hist.call = "setOulierRatio" /\ hist.arg = 98
  /\ Len(d2d.params_) = 2
  /\ d2d.params_[1].cell_size = 39 /\ d2d.params_[2].cell_size = 1
  /\ \A k \in 1..2 : /\ InFittingRange(d2d.params_[k])
                      /\ d2d.params_[k].gauss_d1_ = Negative
                      /\ d2d.params_[k].gauss_d2_ = Positive

----------------------------------------------------------------------------
(* calcScore's parallel region: two workers share the loop over the source *)
(* cells; omp_ret[thread_id] += ... is a read of the slot followed by a     *)
(* write of it.                                                             *)

\* num_threads(2)
NumThreads == 2
\* omp_ret.resize(4)
OmpResized == 4
\* the loop that pushes four more accumulators
OmpPushed == 4

Threads == 0..(NumThreads - 1)

\* the accumulator a worker adds to: omp_ret[omp_get_thread_num()]
\* (sequences are indexed from 1)
SlotShared(thread_id) == 1
Slot(thread_id) == thread_id + 1

\* grids and poses the accumulator is run on
ScoreGridSet ==
  GridSet \cup
  { << <<Quad(1, 1, -1), Quad(2, 2, -1)>>, <<Quad(3, 1, 1)>>, <<Quad(1, -2, 1), Singular>> >>,
    << <<Quad(1, 1, -1)>>, <<NonFinite, Quad(2, 2, -1)>> >>,
    << <<Quad(1, 1, -1), Singular>>, <<NanDist, Quad(2, 2, -1)>>, <<Cross(3, 1)>> >> }
ScorePoseSet == {Zero3, <<1, 0, 0>>}

WorkerIdle == [pc |-> "idle", cell |-> 0, k |-> 0, tmp |-> ScoreZero]

RECURSIVE SumSeq(_)
SumSeq(q) == IF q = << >> THEN ScoreZero ELSE ScoreAdd(Head(q), SumSeq(Tail(q)))

InitScore ==
  /\ d2d = D2DConstructed
  /\ fr = FrameIdle
  /\ rob = RobIdle
  /\ omp = OmpIdle
  /\ hist = HistEmpty

\* entry of calcScore: the source cells are materialised and omp_ret holds
\* OmpResized + OmpPushed zero triples
CalcScoreBegin ==
  /\ omp.pc = "none"
  /\ \E grid \in ScoreGridSet, trans \in ScorePoseSet :
       omp' = [pc |-> "parallel", source_cells |-> grid, trans |-> trans,
               omp_ret |-> [k \in 1..(OmpResized + OmpPushed) |-> ScoreZero],
               todo |-> 1..Len(grid),
               worker |-> [t \in Threads |-> WorkerIdle],
               res |-> ScoreZero]
  /\ UNCHANGED <<d2d, fr, rob, hist>>

\* omp for: a free worker is handed any cell not yet handed out
TakeCell(t) ==
  /\ omp.pc = "parallel"
  /\ omp.worker[t].pc = "idle"
  /\ \E cell_id \in omp.todo :
       omp' = [omp EXCEPT !.todo = @ \ {cell_id},
                          !.worker[t] = [pc |-> IF omp.source_cells[cell_id] = << >>
                                                THEN "idle" ELSE "read",
                                         cell |-> cell_id, k |-> 1, tmp |-> ScoreZero]]
  /\ UNCHANGED <<d2d, fr, rob, hist>>

\* the read half of omp_ret[thread_id] += calcSourceCellScore(...)
ReadSlot(t) ==
  /\ omp.pc = "parallel"
  /\ omp.worker[t].pc = "read"
  /\ omp' = [omp EXCEPT !.worker[t].pc = "write",
                        !.worker[t].tmp = omp.omp_ret[Slot(t)]]
  /\ UNCHANGED <<d2d, fr, rob, hist>>

\* the write half, and the step to the next neighbour
WriteSlot(t) ==
  /\ omp.pc = "parallel"
  /\ omp.worker[t].pc = "write"
  /\ LET w == omp.worker[t]
         cell == omp.source_cells[w.cell]
         sum == ScoreAdd(w.tmp, calcSourceCellScore(cell[w.k], omp.trans))
     IN omp' = [omp EXCEPT !.omp_ret[Slot(t)] = sum,
                           !.worker[t].k = w.k + 1,
                           !.worker[t].pc = IF w.k < Len(cell) THEN "read" ELSE "idle"]
  /\ UNCHANGED <<d2d, fr, rob, hist>>

\* after the parallel region: the serial sum of all of omp_ret
Reduce ==
  /\ omp.pc = "parallel"
  /\ omp.todo = {}
  /\ \A t \in Threads : omp.worker[t].pc = "idle"
  /\ omp' = [omp EXCEPT !.pc = "done", !.res = SumSeq(omp.omp_ret)]
  /\ UNCHANGED <<d2d, fr, rob, hist>>

NextScore ==
  \/ CalcScoreBegin
  \/ \E t \in Threads : TakeCell(t) \/ ReadSlot(t) \/ WriteSlot(t)
  \/ Reduce

SpecScore == InitScore /\ [][NextScore]_vars

\* C9: for every assignment of the source cells to the workers and every
\* interleaving, the total calcScore returns is the sum of the per-pair
\* contributions over every source cell and its neighbours.
C9_TotalIsSumOfContributions ==
  omp.pc = "done" => omp.res = calcScore(omp.source_cells, omp.trans)

\* both workers added non-zero contributions and the total is not zero
C9_Witness ==
  /\ omp.pc = "done"
  /\ omp.omp_ret[1] # ScoreZero /\ ~omp.omp_ret[1].nan
  /\ omp.omp_ret[2] # ScoreZero /\ ~omp.omp_ret[2].nan
  /\ omp.res # ScoreZero
  /\ Len(omp.source_cells) = 3

\* a pair calcSourceCellScore returns the zero triple for before it scores
\* it: the covariance sum has no inverse, or the distance is NaN
Absorbed(pair) == pair.kind \in {"singular", "nandist"}

\* the source cells without those pairs
RegularPairsOnly(grid) ==
  [k \in 1..Len(grid) |-> SelectSeq(grid[k], LAMBDA pair : ~Absorbed(pair))]

\* C20: a source/target pair whose summed covariance is singular, or whose
\* distance is NaN, contributes the all-zero triple and raises no error, and
\* the contributions of all other pairs to the accumulated total are
\* unaffected: the total is the total of the other pairs alone.
C20_FailedPairsContributeZero ==
  omp.pc = "done" =>
    omp.res = calcScore(RegularPairsOnly(omp.source_cells), omp.trans)

\* a total over a singular pair, a NaN-distance pair and regular pairs
C20_Witness ==
  /\ omp.pc = "done"
  /\ \E k \in 1..Len(omp.source_cells) :
       \E j \in 1..Len(omp.source_cells[k]) : omp.source_cells[k][j] = Singular
  /\ \E k \in 1..Len(omp.source_cells) :
       \E j \in 1..Len(omp.source_cells[k]) : omp.source_cells[k][j] = NanDist
  /\ ~omp.res.nan
  /\ omp.res.value # 0 /\ omp.res.gradient # Zero3

----------------------------------------------------------------------------
(* Claims on the stand-alone D2D object (checked under Spec) *)

\* C4: the resolutions are processed in index order of cell_sizes_; the first
\* Newton loop starts from the pose of the caller's guess and every later one
\* from the pose the resolution before it returned; when every resolution
\* returned successfully align ends converged with the pose the last
\* resolution returned as final_transformation_.
C4_CoarseToFineChain ==
  /\ Len(hist.sizes) <= Len(d2d.cell_sizes_)
  /\ hist.sizes = SubSeq(d2d.cell_sizes_, 1, Len(hist.sizes))
  /\ Len(hist.starts) = Len(hist.sizes)
  /\ \A k \in 1..Len(hist.starts) :
       /\ k - 1 <= Len(hist.rets)
       /\ hist.starts[k] = matToVec(IF k = 1 THEN fr.guess ELSE hist.rets[k - 1])
  /\ (fr.pc = "done" /\ ~hist.insufficient) =>
       /\ d2d.converged_
       /\ Len(hist.rets) = Len(d2d.cell_sizes_)
       /\ Len(hist.rets) > 0 => d2d.final_transformation_ = Last(hist.rets)

\* a run of three resolutions that all succeeded and moved the pose each time
C4_Witness ==
  /\ fr.pc = "done" /\ d2d.converged_
  /\ Len(hist.rets) = 3
  /\ hist.rets[1] # fr.guess
  /\ hist.rets[2] # hist.rets[1]
  /\ hist.rets[3] # hist.rets[2]
  /\ d2d.final_transformation_ = hist.rets[3]

\* C5: once a Newton iteration found the step norm 0 or NaN, the resolution
\* has reported InsufficientOverlap, it is the last resolution processed, and
\* align ends with converged_ false and covariance_ and inform_matrix_ the
\* identity (also when the resolution set converged_ itself, for n == 0).
C5_ZeroOrNaNNormAborts ==
  (fr.evaluated /\ (fr.norm_nan \/ fr.delta_p_norm = 0)) =>
     /\ hist.insufficient
     /\ fr.pc \in {"failed", "done"}
     /\ Len(hist.sizes) = fr.i + 1
     /\ hist.inner_converged = ~fr.norm_nan
     /\ d2d.covariance_ = M3Identity
     /\ d2d.inform_matrix_ = M3Identity
     /\ fr.pc = "done" => ~d2d.converged_

\* n == 0 at the second resolution, after a Newton step was taken in it: the
\* resolution set converged_, align ended with it false
C5_Witness ==
  /\ fr.pc = "done" /\ ~d2d.converged_
  /\ hist.insufficient /\ hist.inner_converged
  /\ fr.delta_p_norm = 0 /\ ~fr.norm_nan
  /\ fr.i = 1 /\ d2d.nr_iterations_ >= 1
  /\ Len(d2d.cell_sizes_) = 3

\* every pair of the grid has a singular covariance sum (or there is no cell)
SingularEverywhere(grid) ==
  \A c \in 1..Len(grid) : \A k \in 1..Len(grid[c]) : grid[c][k].kind = "singular"

\* C10: a grid without cells, or whose pairs are all singular, scores the
\* all-zero triple; and whenever the score of a Newton evaluation is the
\* all-zero triple the direction has norm 0 and align reports
\* InsufficientOverlap and ends with converged_ false.
C10_ZeroScoreInsufficientOverlap ==
  /\ (fr.evaluated /\ SingularEverywhere(fr.grid)) => fr.score = ScoreZero
  /\ (fr.evaluated /\ fr.score = ScoreZero) =>
       /\ fr.delta_p_norm = 0 /\ ~fr.norm_nan
       /\ Norm(Solve(fr.score)) = 0
       /\ hist.insufficient
       /\ fr.pc \in {"failed", "done"}
       /\ fr.pc = "done" => ~d2d.converged_

\* a grid with cells, all pairs singular, met at a finer resolution
C10_Witness ==
  /\ fr.pc = "done" /\ ~d2d.converged_
  /\ fr.grid # << >> /\ SingularEverywhere(fr.grid)
  /\ fr.score = ScoreZero /\ hist.insufficient
  /\ fr.i >= 1

----------------------------------------------------------------------------
(* Claims on the line search (SpecSearch).  fr.mt is what the last call of *)
(* computeStepLengthMT left.                                               *)

\* C14: when step_min < step_max and the initial slope is not 0, the step
\* length returned satisfies both the sufficient-decrease condition
\* psi(alpha) <= 0 and the curvature condition phi'(alpha) <= -0.9 phi'(0),
\* unless the search ran its 10 inner iterations or updateIntervalMT
\* reported the interval converged.
C14_ReturnedStepSatisfiesConditions ==
  (fr.mt.called /\ fr.mt.step_min < fr.mt.step_max /\ fr.mt.slope # 0)
    => \/ fr.mt.decrease /\ fr.mt.curvature
       \/ fr.mt.step_iterations = max_step_iterations
       \/ fr.mt.reported

\* C15: within a resolution, a Newton step ends the loop successfully
\* exactly when the counter i >= max_iterations or (i >= 1 and
\* |alpha| < transformation_epsilon), alpha being the step length the line
\* search returned for that step; otherwise another iteration runs, and every
\* iteration starts from the pose the previous one produced.
C15_LoopEndsExactlyOnConvergence ==
  [][(fr.pc = "while" /\ fr'.pc \in {"while", "exit"})
       => /\ fr'.mt.called
          /\ fr'.alpha = fr'.mt.a_t
          /\ d2d'.nr_iterations_ = d2d.nr_iterations_ + 1
          /\ (fr'.pc = "exit")
               <=> \/ d2d'.nr_iterations_ >= d2d'.max_iterations_
                   \/ /\ d2d'.nr_iterations_ >= 1
                      /\ ~fr'.alpha.nan
                      /\ Abs(fr'.alpha.v) < d2d'.transformation_epsilon_
          /\ d2d'.converged_ = (fr'.pc = "exit")
          /\ fr'.mt.x = fr.xytheta_p
          /\ fr'.xytheta_p = Plus(fr.xytheta_p, Scale(fr'.mt.step_dir, fr'.alpha.v))]_vars

\* a second Newton step, taken from the pose of the first, whose step length
\* is below epsilon and ends the loop before the cap
C15_Witness ==
  /\ fr.pc = "exit"
  /\ d2d.nr_iterations_ = 2
  /\ d2d.nr_iterations_ < d2d.max_iterations_
  /\ Abs(fr.alpha.v) < d2d.transformation_epsilon_
  /\ fr.alpha.v # 0
  /\ fr.mt.x # matToVec(fr.guess)

----------------------------------------------------------------------------
(* Claims on the iteration counter (Spec) *)

\* C16: at every point of a resolution's Newton loop, and in the
\* final_num_iterations reported after align, the iteration counter i
\* satisfies i <= max_iterations, for every configured max_iterations >= 0.
C16_CounterWithinCap ==
  /\ d2d.nr_iterations_ <= d2d.max_iterations_
  /\ getFinalNumIteration(d2d) <= d2d.max_iterations_

----------------------------------------------------------------------------
(* Claims on the steps of the line search (SpecSearch) *)

\* step_min <= a <= step_max, for the call that left the record mt
WithinStepInterval(mt, a) ==
  ~a.nan /\ mt.step_min <= a.v /\ a.v <= mt.step_max

\* C17: for all values of step_size and transformation_epsilon, every step
\* length the line search returns is either 0 (only when the initial slope
\* is 0) or lies in [step_min, step_max] = [transformation_epsilon / 2,
\* step_size], and every trial step at which the score is evaluated lies in
\* that interval.
C17_StepsWithinInterval ==
  fr.mt.called
    => /\ \/ fr.mt.slope = 0 /\ fr.mt.a_t = Num(0)
          \/ WithinStepInterval(fr.mt, fr.mt.a_t)
       /\ \A i \in 1..Len(fr.mt.trials) : WithinStepInterval(fr.mt, fr.mt.trials[i])

\* a state right after a Newton step that called the line search
AfterNewtonStep == fr.pc \in {"while", "exit"} /\ fr.evaluated /\ fr.mt.called

\* the parts of C18 that do not depend on the sign given to phi'(0): a
\* positive slope negates the direction and the Newton update uses the
\* negated direction; a zero slope returns 0 without a score evaluation and
\* leaves the pose as it was
DirectionAndUpdate ==
  /\ fr.mt.slope > 0 =>
       /\ fr.mt.step_dir = Scale(fr.mt.step_dir_in, -1)
       /\ fr.xytheta_p = Plus(fr.mt.x, Scale(Scale(fr.mt.step_dir_in, -1), fr.mt.a_t.v))
  /\ fr.mt.slope = 0 =>
       /\ fr.mt.a_t = Num(0)
       /\ fr.mt.trials = << >>
       /\ fr.xytheta_p = fr.mt.x

\* C18: if the initial slope phi'(0) is > 0 the direction is negated, the
\* search proceeds with |phi'(0)| as its initial slope, and the Newton update
\* that follows uses the negated direction; if phi'(0) = 0 the search returns
\* 0 without evaluating the score, so the pose is unchanged by that Newton
\* iteration.
C18_ReversalWithAbsoluteSlope ==
  AfterNewtonStep =>
    /\ DirectionAndUpdate
    /\ fr.mt.slope > 0 => fr.mt.d_phi_0 = Abs(fr.mt.slope)

\* C18 (amended): as above, but after the reversal the search proceeds with
\* -|phi'(0)|, the slope of phi along the negated direction.
C18_ReversalWithNegatedSlope ==
  AfterNewtonStep =>
    /\ DirectionAndUpdate
    /\ fr.mt.slope > 0 => fr.mt.d_phi_0 = 0 - Abs(fr.mt.slope)

\* a Newton step whose direction had zero slope, in an align that reversed
\* a direction of positive slope before
C18_Witness ==
  /\ AfterNewtonStep
  /\ hist.reversed
  /\ fr.mt.slope = 0
  /\ fr.mt.step_dir_in # Zero3
  /\ fr.mt.x # matToVec(fr.guess)

----------------------------------------------------------------------------
(* Claims on an aborted align (Spec) *)

\* the pose with which the resolution being processed was entered: the
\* caller's guess at the coarsest one, else what the one before returned
EntryPose == IF hist.rets = << >> THEN fr.guess ELSE Last(hist.rets)

\* C22: when align aborts with insufficient overlap at resolution k, the
\* final_transformation_ it leaves is the pose with which resolution k was
\* entered (the caller's guess for the coarsest resolution, otherwise the
\* result of resolution k-1): the Newton steps already taken inside
\* resolution k are discarded, and the output cloud is not written.
C22_AbortLeavesEntryPose ==
  (hist.insufficient /\ fr.pc \in {"failed", "done"})
    => /\ Len(hist.rets) = Len(hist.sizes) - 1
       /\ d2d.final_transformation_ = EntryPose
       /\ ~fr.output.written

\* an abort at the second resolution after a Newton step that moved the pose
C22_Witness ==
  /\ hist.insufficient /\ fr.pc = "done"
  /\ Len(hist.sizes) = 2
  /\ d2d.nr_iterations_ >= 1
  /\ d2d.transformation_ # EntryPose
  /\ EntryPose # fr.guess
  /\ d2d.final_transformation_ = hist.rets[1]

----------------------------------------------------------------------------
(* Claims on what the wrapper returns (SpecRobust).  rob.T1 and rob.conv1  *)
(* are getFinalTransformation() and hasConverged() of d2d_ after its first  *)
(* run of the call, rob.T2 and rob.conv2 after its second.                  *)

\* C23 as stated: whenever the wrapper's align ends with converged_ = true,
\* the final_transformation_ it returns is the final transformation of a D2D
\* run (first or second) that itself reported convergence in that call.
C23_ReturnsConvergedRun ==
  (rob.pc = "done" /\ rob.converged_)
    => \/ rob.conv1 /\ rob.final_transformation_ = rob.T1
       \/ ~rob.direct /\ rob.conv2 /\ rob.final_transformation_ = rob.T2

\* C23 amended: whenever the wrapper's align ends with converged_ = true, the
\* final_transformation_ it returns is the final transformation of a D2D run
\* of that call: of a run that reported convergence (the first when it was
\* accepted directly, the second when score2 >= 0.4), or, when score2 < 0.4
\* and score > 0.6, of the first run whether or not it reported convergence.
C23_ReturnsRunOfTheCall ==
  (rob.pc = "done" /\ rob.converged_)
    => \/ rob.direct /\ rob.conv1 /\ rob.final_transformation_ = rob.T1
       \/ /\ ~rob.direct /\ rob.conv2
          /\ rob.score2 >= TauAccept
          /\ rob.final_transformation_ = rob.T2
       \/ /\ ~rob.direct /\ rob.conv2
          /\ rob.score2 < TauAccept /\ rob.score > TauSalvage
          /\ rob.final_transformation_ = rob.T1

\* the first run aborted, the second converged on another pose with a low
\* score, and the pose the first run left is returned as converged
C23_Witness ==
  /\ rob.pc = "done" /\ rob.converged_
  /\ ~rob.direct /\ ~rob.conv1 /\ rob.conv2
  /\ rob.T1 # rob.T2
  /\ rob.final_transformation_ = rob.T1

====
